---- MODULE Spec2Model ----
(***************************************************************************)
(* A model of the StableSwap client facade (lib/client/src/stable-swap.ts) *)
(* and of the collaborators it calls: the account layout, the instruction  *)
(* builders, the Numberu64 wrapper and sendAndConfirmTransaction, which    *)
(* live in sibling files of the client and are modelled from the           *)
(* specification, and the ledger transport, which answers arbitrarily.     *)
(***************************************************************************)
EXTENDS Integers, Sequences, FiniteSets, TLC

\* ------------------------------------------------------------------ bounds

\* How many create/swap/deposit/withdraw calls one behaviour starts.
MaxCalls == 2
\* How many clients the callers hold at most.
MaxClients == 2
\* The bound on confirmation polls of one submit.
MaxPollAttempts == 2

\* ------------------------------------------------------------ public keys

\* A public key is a tuple: <<name>> for a key somebody generated, and
\* <<address, programId>> for the program-derived address of those seeds.
Key(name) == <<name>>

NoKey == Key("none")
SystemProgramId == Key("system")

\* PublicKey.findProgramAddress([address.toBuffer()], programId): a
\* deterministic one-way function of the seeds, never a generated key.
deriveAuthority(address, programId) == <<address, programId>>

PoolAddrs == {Key("pool1"), Key("pool2")}
SwapProgramIds == {Key("swapProgram")}
TokenProgramIds == {Key("tokenProgram")}
Payers == {Key("payer")}
PoolMintKeys == {Key("poolMint")}

\* ------------------------------------------------------------ Numberu64

\* A number is its sign and its significant bytes, least significant first
\* (the ledger's integers are 64 bits wide, wider than TLC's).
Num(neg, bytes) == [neg |-> neg, bytes |-> bytes]

Zero == Num(FALSE, <<>>)
MinusOne == Num(TRUE, <<1>>)
Thousand == Num(FALSE, <<232, 3>>)
U64Max == Num(FALSE, <<255, 255, 255, 255, 255, 255, 255, 255>>)
TwoTo64 == Num(FALSE, <<0, 0, 0, 0, 0, 0, 0, 0, 1>>)

\* The numeric arguments outside the domain: below it and above it.
BadAmounts == {MinusOne, TwoTo64}

\* new Numberu64(n): wraps the number, whatever it is.
Numberu64(n) == n

\* The encoder's domain check: a non-negative value of at most 8 bytes.
InRange(n) == ~n.neg /\ Len(n.bytes) <= 8

\* Numberu64.toBuffer: 8 bytes, little endian, zero padded.
toBuffer(n) == [i \in 1..8 |-> IF i <= Len(n.bytes) THEN n.bytes[i] ELSE 0]

RECURSIVE StripZeros(_)
StripZeros(bytes) ==
    IF bytes = <<>> THEN <<>>
    ELSE IF bytes[Len(bytes)] = 0 THEN StripZeros(SubSeq(bytes, 1, Len(bytes) - 1))
    ELSE bytes

\* Numberu64.fromBuffer: the value of 8 little-endian bytes.
fromBuffer(buffer) == Num(FALSE, StripZeros(buffer))

\* ------------------------------------------------------------ the layout

\* layout.StableSwapLayout.span: the flag byte, six 32-byte keys and three
\* 8-byte integers.
StableSwapLayoutSpan == 1 + 6 * 32 + 3 * 8

\* The decoded account record (layout.StableSwapLayout.decode).
AccountData(isInitialized, tokenPool, tokenAccountA, tokenAccountB, mintA, mintB, tokenProgramId, ampFactor, feeNumerator, feeDenominator) ==
    [isInitialized |-> isInitialized, tokenPool |-> tokenPool,
     tokenAccountA |-> tokenAccountA, tokenAccountB |-> tokenAccountB,
     mintA |-> mintA, mintB |-> mintB, tokenProgramId |-> tokenProgramId,
     ampFactor |-> ampFactor, feeNumerator |-> feeNumerator,
     feeDenominator |-> feeDenominator]

\* An allocated account nobody initialized: all zero bytes.
BlankData ==
    AccountData(FALSE, NoKey, NoKey, NoKey, NoKey, NoKey, NoKey,
                toBuffer(Zero), toBuffer(Zero), toBuffer(Zero))

\* A ledger account: whether it exists, its owner, its size and its data.
Account(exists, owner, space, data) ==
    [exists |-> exists, owner |-> owner, space |-> space, data |-> data]

NoAccount == Account(FALSE, NoKey, 0, BlankData)

\* ------------------------------------------------------------ the client

\* The fields the constructor stores (the connection is the one transport).
StableSwap(stableSwap, swapProgramId, tokenProgramId, poolToken, authority, tokenAccountA, tokenAccountB, mintA, mintB, ampFactor, feeNumerator, feeDenominator, payer) ==
    [stableSwap |-> stableSwap, swapProgramId |-> swapProgramId,
     tokenProgramId |-> tokenProgramId, poolToken |-> poolToken,
     authority |-> authority, tokenAccountA |-> tokenAccountA,
     tokenAccountB |-> tokenAccountB, mintA |-> mintA, mintB |-> mintB,
     ampFactor |-> ampFactor, feeNumerator |-> feeNumerator,
     feeDenominator |-> feeDenominator, payer |-> payer]

NoClient ==
    StableSwap(NoKey, NoKey, NoKey, NoKey, NoKey, NoKey, NoKey, NoKey, NoKey,
               Zero, Zero, Zero, NoKey)

\* ------------------------------------------------------- the instructions

AccountMeta(pubkey, isSigner, isWritable) ==
    [pubkey |-> pubkey, isSigner |-> isSigner, isWritable |-> isWritable]

ReadOnly(pubkey) == AccountMeta(pubkey, FALSE, FALSE)
Writable(pubkey) == AccountMeta(pubkey, FALSE, TRUE)

\* One instruction: the program it is for, its account references in order
\* and its payload; an allocation also names its funding, size and owner.
Instruction(name, programId, keys, data, lamports, space, owner) ==
    [name |-> name, programId |-> programId, keys |-> keys, data |-> data,
     lamports |-> lamports, space |-> space, owner |-> owner]

NoInstruction == Instruction("none", NoKey, <<>>, <<>>, 0, 0, NoKey)

\* What an instruction builder gives back: the instruction, or the error it
\* raised.
Built(ins) == [error |-> "", ins |-> ins]
Thrown(error) == [error |-> error, ins |-> NoInstruction]

\* SystemProgram.createAccount({fromPubkey, newAccountPubkey, lamports,
\* space, programId}).
createAccount(fromPubkey, newAccountPubkey, lamports, space, programId) ==
    Instruction("createAccount", SystemProgramId,
                <<AccountMeta(fromPubkey, TRUE, TRUE),
                  AccountMeta(newAccountPubkey, TRUE, TRUE)>>,
                <<>>, lamports, space, programId)

\* The token program the initialize instruction refers to.
TokenProgramRef == Key("tokenProgram")

\* instructions.createInitSwapInstruction: tag 0, the nonce and three
\* 8-byte integers.
createInitSwapInstruction(stableSwapAccount, authority, tokenAccountA, tokenAccountB, poolToken, tokenAccountPool, swapProgramId, nonce, ampFactor, feeNumerator, feeDenominator) ==
    IF ~InRange(ampFactor) \/ ~InRange(feeNumerator) \/ ~InRange(feeDenominator)
    THEN Thrown("ValueOutOfRangeError")
    ELSE Built(Instruction("initialize", swapProgramId,
                <<Writable(stableSwapAccount), ReadOnly(authority),
                  ReadOnly(tokenAccountA), ReadOnly(tokenAccountB),
                  Writable(poolToken), Writable(tokenAccountPool),
                  ReadOnly(TokenProgramRef)>>,
                <<0, nonce>> \o toBuffer(Numberu64(ampFactor))
                    \o toBuffer(Numberu64(feeNumerator))
                    \o toBuffer(Numberu64(feeDenominator)),
                0, 0, NoKey))

\* instructions.swapInstruction: tag 1 and two 8-byte integers.
swapInstruction(stableSwap, authority, userSource, poolSource, poolDestination, userDestination, swapProgramId, tokenProgramId, amountIn, minimumAmountOut) ==
    IF ~InRange(amountIn) \/ ~InRange(minimumAmountOut)
    THEN Thrown("ValueOutOfRangeError")
    ELSE Built(Instruction("swap", swapProgramId,
                <<ReadOnly(stableSwap), ReadOnly(authority),
                  Writable(userSource), Writable(poolSource),
                  Writable(poolDestination), Writable(userDestination),
                  ReadOnly(tokenProgramId)>>,
                <<1>> \o toBuffer(Numberu64(amountIn))
                    \o toBuffer(Numberu64(minimumAmountOut)),
                0, 0, NoKey))

\* instructions.depositInstruction: tag 2 and three 8-byte integers.
depositInstruction(stableSwap, authority, sourceA, sourceB, intoA, intoB, poolToken, poolAccount, swapProgramId, tokenProgramId, tokenAmountA, tokenAmountB, minimumPoolTokenAmount) ==
    IF ~InRange(tokenAmountA) \/ ~InRange(tokenAmountB)
       \/ ~InRange(minimumPoolTokenAmount)
    THEN Thrown("ValueOutOfRangeError")
    ELSE Built(Instruction("deposit", swapProgramId,
                <<ReadOnly(stableSwap), ReadOnly(authority),
                  Writable(sourceA), Writable(sourceB),
                  Writable(intoA), Writable(intoB),
                  Writable(poolToken), Writable(poolAccount),
                  ReadOnly(tokenProgramId)>>,
                <<2>> \o toBuffer(Numberu64(tokenAmountA))
                    \o toBuffer(Numberu64(tokenAmountB))
                    \o toBuffer(Numberu64(minimumPoolTokenAmount)),
                0, 0, NoKey))

\* instructions.withdrawInstruction: tag 3 and three 8-byte integers.
withdrawInstruction(stableSwap, authority, poolMint, sourcePoolAccount, fromA, fromB, userAccountA, userAccountB, swapProgramId, tokenProgramId, poolTokenAmount, minimumTokenA, minimumTokenB) ==
    IF ~InRange(poolTokenAmount) \/ ~InRange(minimumTokenA)
       \/ ~InRange(minimumTokenB)
    THEN Thrown("ValueOutOfRangeError")
    ELSE Built(Instruction("withdraw", swapProgramId,
                <<ReadOnly(stableSwap), ReadOnly(authority),
                  Writable(poolMint), Writable(sourcePoolAccount),
                  Writable(fromA), Writable(fromB),
                  Writable(userAccountA), Writable(userAccountB),
                  ReadOnly(tokenProgramId)>>,
                <<3>> \o toBuffer(Numberu64(poolTokenAmount))
                    \o toBuffer(Numberu64(minimumTokenA))
                    \o toBuffer(Numberu64(minimumTokenB)),
                0, 0, NoKey))

\* ------------------------------------------------------- the transaction

\* new Transaction().add(...): which object it is (attempt), its
\* instructions in the order added, and who signs it.
Transaction(attempt, instructions, signers) ==
    [attempt |-> attempt, instructions |-> instructions, signers |-> signers]

NoTransaction == Transaction(0, <<>>, <<>>)

\* ------------------------------------------------------------ the state

VARIABLES
    ledger,       \* the accounts on the ledger, by address
    clients,      \* the StableSwap objects load and create returned, in order
    calls,        \* the create/swap/deposit/withdraw calls made so far
    origins,      \* for each client, whether "load" or "create" returned it
    lastLoad,     \* what the latest loadStableSwap did
    numbers,      \* the numeric arguments the callers of this behaviour pass
    nextAttempt   \* how many Transaction objects were constructed, plus one

vars == <<ledger, clients, origins, calls, lastLoad, numbers, nextAttempt>>

\* The mint of a token account (the ledger's token accounts are fixed).
MintOf(tokenAccount) ==
    IF tokenAccount = Key("tokenA") THEN Key("mintA")
    ELSE IF tokenAccount = Key("tokenB") THEN Key("mintB")
    ELSE NoKey

\* A pool somebody initialized earlier.
ExistingPool ==
    Account(TRUE, Key("swapProgram"), StableSwapLayoutSpan,
            AccountData(TRUE, Key("poolMint"), Key("tokenA"), Key("tokenB"),
                        Key("mintA"), Key("mintB"), Key("tokenProgram"),
                        toBuffer(Thousand), toBuffer(Thousand), toBuffer(U64Max)))

\* An account allocated for the program and not initialized.
BlankPool == Account(TRUE, Key("swapProgram"), StableSwapLayoutSpan, BlankData)

\* connection.getMinimumBalanceForRentExemption(size), when it answers.
minimumBalanceForRentExemption(size) == size * 7

\* ------------------------------------------------------------ load

\* What one loadStableSwap did: whether the account was fetched and decoded,
\* the flag it decoded, the error it raised and the client it returned.
LoadResult(decoded, isInitialized, error, returned, client) ==
    [decoded |-> decoded, isInitialized |-> isInitialized, error |-> error,
     returned |-> returned, client |-> client]

NoLoad == LoadResult(FALSE, FALSE, "", FALSE, NoClient)

\* What the model remembers of the latest load: all but the client, which is
\* the last of clients when the load returned one.
Outline(r) ==
    [decoded |-> r.decoded, isInitialized |-> r.isInitialized,
     error |-> r.error, returned |-> r.returned]

\* util/account loadAccount: the account's data, or an error when the
\* account is not there.
loadAccount(account, address, programId) ==
    IF ~account.exists THEN [error |-> "AccountNotFoundError", data |-> BlankData]
    ELSE [error |-> "", data |-> account.data]

\* loadStableSwap without its check of the initialization flag.
loadStableSwapUnchecked(account, address, programId, payer) ==
    LET fetched == loadAccount(account, address, programId)
        stableSwapData == fetched.data
        authority == deriveAuthority(address, programId)
    IN  IF fetched.error # ""
        THEN LoadResult(FALSE, FALSE, fetched.error, FALSE, NoClient)
        ELSE LoadResult(TRUE, stableSwapData.isInitialized, "", TRUE,
                StableSwap(address, programId, stableSwapData.tokenProgramId,
                           stableSwapData.tokenPool, authority,
                           stableSwapData.tokenAccountA,
                           stableSwapData.tokenAccountB,
                           stableSwapData.mintA, stableSwapData.mintB,
                           fromBuffer(stableSwapData.ampFactor),
                           fromBuffer(stableSwapData.feeNumerator),
                           fromBuffer(stableSwapData.feeDenominator), payer))

\* loadStableSwap taking the authority from the fetched record (the key it
\* reads first) instead of deriving it.
loadStableSwapAuthorityFromData(account, address, programId, payer) ==
    LET fetched == loadAccount(account, address, programId)
        stableSwapData == fetched.data
        authority == stableSwapData.tokenPool
    IN  IF fetched.error # ""
        THEN LoadResult(FALSE, FALSE, fetched.error, FALSE, NoClient)
        ELSE IF ~stableSwapData.isInitialized
        THEN LoadResult(TRUE, FALSE, "PoolNotInitializedError", FALSE, NoClient)
        ELSE LoadResult(TRUE, TRUE, "", TRUE,
                StableSwap(address, programId, stableSwapData.tokenProgramId,
                           stableSwapData.tokenPool, authority,
                           stableSwapData.tokenAccountA,
                           stableSwapData.tokenAccountB,
                           stableSwapData.mintA, stableSwapData.mintB,
                           fromBuffer(stableSwapData.ampFactor),
                           fromBuffer(stableSwapData.feeNumerator),
                           fromBuffer(stableSwapData.feeDenominator), payer))

\* StableSwap.loadStableSwap, on the account the transport holds at address.
loadStableSwap(account, address, programId, payer) ==
    LET fetched == loadAccount(account, address, programId)
        stableSwapData == fetched.data
        authority == deriveAuthority(address, programId)
    IN  IF fetched.error # ""
        THEN LoadResult(FALSE, FALSE, fetched.error, FALSE, NoClient)
        ELSE IF ~stableSwapData.isInitialized
        THEN LoadResult(TRUE, FALSE, "PoolNotInitializedError", FALSE, NoClient)
        ELSE LoadResult(TRUE, TRUE, "", TRUE,
                StableSwap(address, programId, stableSwapData.tokenProgramId,
                           stableSwapData.tokenPool, authority,
                           stableSwapData.tokenAccountA,
                           stableSwapData.tokenAccountB,
                           stableSwapData.mintA, stableSwapData.mintB,
                           fromBuffer(stableSwapData.ampFactor),
                           fromBuffer(stableSwapData.feeNumerator),
                           fromBuffer(stableSwapData.feeDenominator), payer))

\* ------------------------------------------------- what a call hands over

\* The facade either raises an error before it reaches
\* sendAndConfirmTransaction, or calls it with a label, the instructions of
\* a new Transaction and the signers; this is the client object as the
\* method leaves it.
Raise(this, error) ==
    [this |-> this, error |-> error, label |-> "", instructions |-> <<>>,
     signers |-> <<>>]
Submit(this, label, instructions, signers) ==
    [this |-> this, error |-> "", label |-> label,
     instructions |-> instructions, signers |-> signers]

\* swap keeping the pool accounts of the trade on the client.
swapCaching(this, userSource, poolSource, poolDestination, userDestination, amountIn, minimumAmountOut) ==
    LET built == swapInstruction(this.stableSwap, this.authority, userSource,
                                 poolSource, poolDestination, userDestination,
                                 this.swapProgramId, this.tokenProgramId,
                                 amountIn, minimumAmountOut)
        kept == [this EXCEPT !.tokenAccountA = poolSource,
                             !.tokenAccountB = poolDestination]
    IN  IF built.error # "" THEN Raise(kept, built.error)
        ELSE Submit(kept, "swap", <<built.ins>>, <<this.payer>>)

\* StableSwap.swap, up to its call of sendAndConfirmTransaction.
swap(this, userSource, poolSource, poolDestination, userDestination, amountIn, minimumAmountOut) ==
    LET built == swapInstruction(this.stableSwap, this.authority, userSource,
                                 poolSource, poolDestination, userDestination,
                                 this.swapProgramId, this.tokenProgramId,
                                 amountIn, minimumAmountOut)
    IN  IF built.error # "" THEN Raise(this, built.error)
        ELSE Submit(this, "swap", <<built.ins>>, <<this.payer>>)

\* deposit with the caller's accounts and the pool's accounts exchanged.
depositExchanged(this, userAccountA, userAccountB, poolAccount, tokenAmountA, tokenAmountB, minimumPoolTokenAmount) ==
    LET built == depositInstruction(this.stableSwap, this.authority,
                                    this.tokenAccountA, this.tokenAccountB,
                                    userAccountA, userAccountB,
                                    this.poolToken, poolAccount,
                                    this.swapProgramId, this.tokenProgramId,
                                    tokenAmountA, tokenAmountB,
                                    minimumPoolTokenAmount)
    IN  IF built.error # "" THEN Raise(this, built.error)
        ELSE Submit(this, "deposit", <<built.ins>>, <<this.payer>>)

\* StableSwap.deposit, up to its call of sendAndConfirmTransaction.
deposit(this, userAccountA, userAccountB, poolAccount, tokenAmountA, tokenAmountB, minimumPoolTokenAmount) ==
    LET built == depositInstruction(this.stableSwap, this.authority,
                                    userAccountA, userAccountB,
                                    this.tokenAccountA, this.tokenAccountB,
                                    this.poolToken, poolAccount,
                                    this.swapProgramId, this.tokenProgramId,
                                    tokenAmountA, tokenAmountB,
                                    minimumPoolTokenAmount)
    IN  IF built.error # "" THEN Raise(this, built.error)
        ELSE Submit(this, "deposit", <<built.ins>>, <<this.payer>>)

\* StableSwap.withdraw, up to its call of sendAndConfirmTransaction.
withdraw(this, userAccountA, userAccountB, poolAccount, poolTokenAmount, minimumTokenA, minimumTokenB) ==
    LET built == withdrawInstruction(this.stableSwap, this.authority,
                                     this.poolToken, poolAccount,
                                     this.tokenAccountA, this.tokenAccountB,
                                     userAccountA, userAccountB,
                                     this.swapProgramId, this.tokenProgramId,
                                     poolTokenAmount, minimumTokenA,
                                     minimumTokenB)
    IN  IF built.error # "" THEN Raise(this, built.error)
        ELSE Submit(this, "withdraw", <<built.ins>>, <<this.payer>>)

\* StableSwap.createStableSwap, its first lines: the client object it will
\* return, built from the arguments.
createStableSwapClient(payer, stableSwapAccount, authority, tokenAccountA, tokenAccountB, poolToken, mintA, mintB, swapProgramId, tokenProgramId, ampFactor, feeNumerator, feeDenominator) ==
    StableSwap(stableSwapAccount, swapProgramId, tokenProgramId, poolToken,
               authority, tokenAccountA, tokenAccountB, mintA, mintB,
               Numberu64(ampFactor), Numberu64(feeNumerator),
               Numberu64(feeDenominator), payer)

\* createStableSwap sending the allocation in a transaction of its own.
createStableSwapAllocationAlone(balanceNeeded, payer, stableSwapAccount, authority, tokenAccountA, tokenAccountB, poolToken, tokenAccountPool, swapProgramId, nonce, ampFactor, feeNumerator, feeDenominator) ==
    LET allocate == createAccount(payer, stableSwapAccount, balanceNeeded,
                                  StableSwapLayoutSpan, swapProgramId)
        built == createInitSwapInstruction(stableSwapAccount, authority,
                                           tokenAccountA, tokenAccountB,
                                           poolToken, tokenAccountPool,
                                           swapProgramId, nonce, ampFactor,
                                           feeNumerator, feeDenominator)
    IN  IF built.error # "" THEN Raise(NoClient, built.error)
        ELSE Submit(NoClient, "createAccount", <<allocate>>,
                    <<payer, stableSwapAccount>>)

\* StableSwap.createStableSwap, from the answer of the rent query up to its
\* call of sendAndConfirmTransaction.
createStableSwapTransaction(balanceNeeded, payer, stableSwapAccount, authority, tokenAccountA, tokenAccountB, poolToken, tokenAccountPool, swapProgramId, nonce, ampFactor, feeNumerator, feeDenominator) ==
    LET allocate == createAccount(payer, stableSwapAccount, balanceNeeded,
                                  StableSwapLayoutSpan, swapProgramId)
        built == createInitSwapInstruction(stableSwapAccount, authority,
                                           tokenAccountA, tokenAccountB,
                                           poolToken, tokenAccountPool,
                                           swapProgramId, nonce, ampFactor,
                                           feeNumerator, feeDenominator)
    IN  IF built.error # "" THEN Raise(NoClient, built.error)
        ELSE Submit(NoClient, "createAccount and InitializeSwap",
                    <<allocate, built.ins>>, <<payer, stableSwapAccount>>)

\* ------------------------------------------------------------ one call

\* One call of create, swap, deposit or withdraw: its arguments (the keys
\* and the numbers, in parameter order), the client it is made on, and
\* where it stands: pc is the facade's position ("rent", "submit",
\* "returned", "raised"), txState the state of its transaction attempt
\* ("none", "signed", "submitted", "confirmed", "failed").
NewCall(op, client, keys, amounts, nonce, local) ==
    [op |-> op, client |-> client, keys |-> keys, amounts |-> amounts,
     nonce |-> nonce, local |-> local, pc |-> "start",
     tx |-> NoTransaction, txState |-> "none", handoffs |-> 0, io |-> 0,
     polls |-> 0, result |-> 0, error |-> "", submitError |-> ""]

\* util/send-and-confirm-transaction, entered: the transaction is assembled,
\* signed and sent, and the call waits for the transport's answer.
sendAndConfirmTransaction(call, request, attempt) ==
    [call EXCEPT !.pc = "submit",
                 !.tx = Transaction(attempt, request.instructions, request.signers),
                 !.txState = "signed",
                 !.handoffs = @ + 1,
                 !.io = @ + 1]

\* The facade reaching the end of its synchronous part: the error it raised
\* ends the call, anything else is handed to sendAndConfirmTransaction.
HandOver(call, request, attempt) ==
    IF request.error # ""
    THEN [call EXCEPT !.pc = "raised", !.error = request.error]
    ELSE sendAndConfirmTransaction(call, request, attempt)

\* How sendAndConfirmTransaction ends: with a signature, or with an error.
Outcome(ok, signature, error) ==
    [ok |-> ok, signature |-> signature, error |-> error]

\* sendAndConfirmTransaction, ended: the state its attempt ends in.
submitEnded(call, outcome) ==
    [call EXCEPT !.txState = IF outcome.ok THEN "confirmed" ELSE "failed",
                 !.submitError = outcome.error]

\* The facade sending its transaction again when submit failed.
afterSubmitRetrying(call, outcome, nClients) ==
    IF outcome.ok
    THEN [call EXCEPT !.pc = "returned",
                      !.result = IF call.op = "create" THEN nClients + 1
                                 ELSE outcome.signature]
    ELSE IF call.handoffs < 2
    THEN [call EXCEPT !.pc = "submit", !.txState = "signed",
                      !.handoffs = @ + 1, !.io = @ + 1, !.polls = 0]
    ELSE [call EXCEPT !.pc = "raised", !.error = outcome.error]

\* The facade after `await sendAndConfirmTransaction(...)`: swap, deposit and
\* withdraw return the signature, create returns its client (result is the
\* client's place in clients), and an error goes on to the caller.
afterSubmit(call, outcome, nClients) ==
    IF outcome.ok
    THEN [call EXCEPT !.pc = "returned",
                      !.result = IF call.op = "create" THEN nClients + 1
                                 ELSE outcome.signature]
    ELSE [call EXCEPT !.pc = "raised", !.error = outcome.error]

\* createStableSwap returning its client whatever submit answered.
returnedClientsAnyway(call, outcome) ==
    IF call.op = "create" THEN <<call.local>> ELSE <<>>

\* The clients createStableSwap hands to its caller when submit ended.
returnedClients(call, outcome) ==
    IF call.op = "create" /\ outcome.ok THEN <<call.local>> ELSE <<>>

\* ------------------------------------------------------------ the ledger

\* A createAccount needs an address nobody holds.
LedgerAccepts(l, tx) ==
    \A i \in 1..Len(tx.instructions) :
        tx.instructions[i].name = "createAccount"
            => ~l[tx.instructions[i].keys[2].pubkey].exists

\* What one instruction leaves on the ledger's pool accounts.
ApplyInstruction(l, ins) ==
    IF ins.name = "createAccount"
    THEN [l EXCEPT ![ins.keys[2].pubkey] =
                Account(TRUE, ins.owner, ins.space, BlankData)]
    ELSE IF ins.name = "initialize"
    THEN [l EXCEPT ![ins.keys[1].pubkey].data =
                AccountData(TRUE, ins.keys[5].pubkey, ins.keys[3].pubkey,
                            ins.keys[4].pubkey, MintOf(ins.keys[3].pubkey),
                            MintOf(ins.keys[4].pubkey), ins.keys[7].pubkey,
                            SubSeq(ins.data, 3, 10), SubSeq(ins.data, 11, 18),
                            SubSeq(ins.data, 19, 26))]
    ELSE l

RECURSIVE ApplyAll(_, _)
ApplyAll(l, instructions) ==
    IF instructions = <<>> THEN l
    ELSE ApplyAll(ApplyInstruction(l, Head(instructions)), Tail(instructions))

\* ------------------------------------------------------------ the inputs

\* The numeric argument lists callers pass: one inside the domain (its
\* upper end included), and the ones with one argument outside it.
AmountTriples ==
    {<<Thousand, Zero, U64Max>>}
        \cup {<<a, Thousand, Thousand>> : a \in BadAmounts}
        \cup {<<Thousand, a, Thousand>> : a \in BadAmounts}
        \cup {<<Thousand, Thousand, a>> : a \in BadAmounts}

Nonces == {255}

\* The trades a caller asks for: which of its accounts pays, which of the
\* pool's accounts takes, which gives and which of its accounts receives.
Trades ==
    {<<Key("userA"), Key("tokenA"), Key("tokenB"), Key("userB")>>,
     <<Key("userB"), Key("tokenB"), Key("tokenA"), Key("userA")>>}

\* The accounts a caller deposits from or withdraws to, and its account of
\* pool tokens.
Wallets ==
    {<<Key("userA"), Key("userB"), Key("userPool")>>,
     <<Key("userB"), Key("userA"), Key("userPool")>>}

\* The mint a caller of create names for token account A.
MintArgs == {Key("mintA")}

\* The authority a caller of create passes: the derived one, or another key.
AuthorityArgs(address, programId) ==
    {deriveAuthority(address, programId), Key("userA")}

\* ------------------------------------------------------------ the actions

Init ==
    /\ ledger \in {[a \in PoolAddrs |->
                        IF a = Key("pool1") THEN ExistingPool ELSE other] :
                   other \in {NoAccount, BlankPool}}
    /\ clients = <<>>
    /\ origins = <<>>
    /\ calls = <<>>
    /\ lastLoad = Outline(NoLoad)
    /\ numbers \in AmountTriples
    /\ nextAttempt = 1

\* loadStableSwap(connection, address, programId, payer): one fetch, then
\* the client or the error.
Load(address, programId, payer) ==
    /\ Len(clients) < MaxClients
    /\ LET r == loadStableSwap(ledger[address], address, programId, payer)
       IN  /\ lastLoad' = Outline(r)
           /\ clients' = IF r.returned THEN Append(clients, r.client) ELSE clients
           /\ origins' = IF r.returned THEN Append(origins, "load") ELSE origins
    /\ UNCHANGED <<ledger, calls, numbers, nextAttempt>>

\* A call of swap, deposit or withdraw on client i, up to its first await.
Invoke(op, i, keys, amounts, request) ==
    /\ Len(calls) < MaxCalls
    /\ calls' = Append(calls,
                    HandOver(NewCall(op, i, keys, amounts, 0, NoClient),
                             request, nextAttempt))
    /\ nextAttempt' = IF request.error = "" THEN nextAttempt + 1 ELSE nextAttempt
    /\ clients' = [clients EXCEPT ![i] = request.this]
    /\ UNCHANGED <<ledger, origins, lastLoad, numbers>>

SwapCall ==
    \E i \in 1..Len(clients), k \in Trades :
        Invoke("swap", i, k, <<numbers[1], numbers[2]>>,
               swap(clients[i], k[1], k[2], k[3], k[4], numbers[1], numbers[2]))

DepositCall ==
    \E i \in 1..Len(clients), k \in Wallets :
        Invoke("deposit", i, k, numbers,
               deposit(clients[i], k[1], k[2], k[3],
                       numbers[1], numbers[2], numbers[3]))

WithdrawCall ==
    \E i \in 1..Len(clients), k \in Wallets :
        Invoke("withdraw", i, k, numbers,
               withdraw(clients[i], k[1], k[2], k[3],
                        numbers[1], numbers[2], numbers[3]))

\* The creates that have not ended.
PendingCreates ==
    {c \in 1..Len(calls) : calls[c].op = "create" /\ calls[c].pc \in {"rent", "submit"}}

\* createStableSwap, up to its first await: the client object is built and
\* the rent query is on its way. keys holds payer, stableSwapAccount,
\* authority, tokenAccountA, tokenAccountB, poolToken, mintA, mintB,
\* tokenAccountPool, swapProgramId, tokenProgramId.
CreateCall ==
    \E payer \in Payers, stableSwapAccount \in PoolAddrs,
       swapProgramId \in SwapProgramIds, tokenProgramId \in TokenProgramIds,
       poolToken \in PoolMintKeys, mintA \in MintArgs, nonce \in Nonces :
      \E authority \in AuthorityArgs(stableSwapAccount, swapProgramId) :
        LET keys == <<payer, stableSwapAccount, authority, Key("tokenA"),
                      Key("tokenB"), poolToken, mintA, Key("mintB"),
                      Key("userPool"), swapProgramId, tokenProgramId>>
            local == createStableSwapClient(payer, stableSwapAccount, authority,
                        Key("tokenA"), Key("tokenB"), poolToken, mintA,
                        Key("mintB"), swapProgramId, tokenProgramId,
                        numbers[1], numbers[2], numbers[3])
        IN  /\ Len(calls) < MaxCalls
            /\ Len(clients) + Cardinality(PendingCreates) < MaxClients
            /\ calls' = Append(calls,
                   [NewCall("create", 0, keys, numbers, nonce, local)
                        EXCEPT !.pc = "rent", !.io = 1])
            /\ UNCHANGED <<ledger, clients, origins, lastLoad, numbers, nextAttempt>>

\* The transport answers the rent query of create c: with an error, which
\* create passes on, or with the balance, and create goes on to its call of
\* sendAndConfirmTransaction.
RentAnswer(c, answered) ==
    /\ calls[c].pc = "rent"
    /\ LET call == calls[c]
           k == call.keys
           request ==
               IF ~answered THEN Raise(NoClient, "TransportError")
               ELSE createStableSwapTransaction(
                        minimumBalanceForRentExemption(StableSwapLayoutSpan),
                        k[1], k[2], k[3], k[4], k[5], k[6], k[9], k[10],
                        call.nonce, call.amounts[1], call.amounts[2],
                        call.amounts[3])
       IN  /\ calls' = [calls EXCEPT ![c] = HandOver(call, request, nextAttempt)]
           /\ nextAttempt' = IF request.error = "" THEN nextAttempt + 1
                             ELSE nextAttempt
    /\ UNCHANGED <<ledger, clients, origins, lastLoad, numbers>>

\* sendAndConfirmTransaction of call c ends with outcome: the facade resumes.
EndSubmit(c, call, outcome) ==
    /\ calls' = [calls EXCEPT ![c] =
                    afterSubmit(submitEnded(call, outcome), outcome, Len(clients))]
    /\ clients' = clients \o returnedClients(call, outcome)
    /\ origins' = origins \o [i \in 1..Len(returnedClients(call, outcome)) |-> "create"]

\* The transport answers the send of call c: accepted, and the first poll
\* goes out, or refused.
SendAnswer(c, accepted) ==
    /\ calls[c].pc = "submit"
    /\ calls[c].txState = "signed"
    /\ IF accepted
       THEN /\ calls' = [calls EXCEPT ![c].txState = "submitted", ![c].io = @ + 1]
            /\ UNCHANGED <<clients, origins>>
       ELSE EndSubmit(c, calls[c], Outcome(FALSE, 0, "SubmissionError"))
    /\ UNCHANGED <<ledger, lastLoad, numbers, nextAttempt>>

\* Polling without a bound: a pending answer is always followed by one more
\* poll.
PollAnswerUnbounded(c, status) ==
    /\ calls[c].pc = "submit"
    /\ calls[c].txState = "submitted"
    /\ LET call == [calls[c] EXCEPT !.polls = @ + 1]
       IN  CASE status = "confirmed" ->
                    /\ LedgerAccepts(ledger, call.tx)
                    /\ ledger' = ApplyAll(ledger, call.tx.instructions)
                    /\ EndSubmit(c, call, Outcome(TRUE, call.tx.attempt, ""))
             [] status = "failed" ->
                    /\ EndSubmit(c, call, Outcome(FALSE, 0, "ProgramRejectedError"))
                    /\ UNCHANGED ledger
             [] status = "pending" ->
                    /\ calls' = [calls EXCEPT ![c] = [call EXCEPT !.io = @ + 1]]
                    /\ UNCHANGED <<ledger, clients, origins>>
    /\ UNCHANGED <<lastLoad, numbers, nextAttempt>>

\* The transport answers a confirmation poll of call c.
PollAnswer(c, status) ==
    /\ calls[c].pc = "submit"
    /\ calls[c].txState = "submitted"
    /\ calls[c].polls < MaxPollAttempts
    /\ LET call == [calls[c] EXCEPT !.polls = @ + 1]
       IN  CASE status = "confirmed" ->
                    /\ LedgerAccepts(ledger, call.tx)
                    /\ ledger' = ApplyAll(ledger, call.tx.instructions)
                    /\ EndSubmit(c, call, Outcome(TRUE, call.tx.attempt, ""))
             [] status = "failed" ->
                    /\ EndSubmit(c, call, Outcome(FALSE, 0, "ProgramRejectedError"))
                    /\ UNCHANGED ledger
             [] status = "pending" ->
                    /\ IF call.polls >= MaxPollAttempts
                       THEN EndSubmit(c, call,
                                Outcome(FALSE, 0, "ConfirmationTimeoutError"))
                       ELSE /\ calls' = [calls EXCEPT ![c] = [call EXCEPT !.io = @ + 1]]
                            /\ UNCHANGED <<clients, origins>>
                    /\ UNCHANGED ledger
    /\ UNCHANGED <<lastLoad, numbers, nextAttempt>>

\* The caller's cutoff passes while call c waits for its confirmation.
CutOff(c) ==
    /\ calls[c].pc = "submit"
    /\ calls[c].txState = "submitted"
    /\ EndSubmit(c, calls[c], Outcome(FALSE, 0, "ConfirmationTimeoutError"))
    /\ UNCHANGED <<ledger, lastLoad, numbers, nextAttempt>>

LoadCall ==
    \E address \in PoolAddrs, programId \in SwapProgramIds, payer \in Payers :
        Load(address, programId, payer)

RentAnswered == \E c \in 1..Len(calls), answered \in BOOLEAN : RentAnswer(c, answered)

SendAnswered == \E c \in 1..Len(calls), accepted \in BOOLEAN : SendAnswer(c, accepted)

PollAnswered ==
    \E c \in 1..Len(calls), status \in {"pending", "confirmed", "failed"} :
        PollAnswer(c, status)

CutOffPassed == \E c \in 1..Len(calls) : CutOff(c)

\* One answer of the transport to the call c waits on.
Answer(c) ==
    \/ \E answered \in BOOLEAN : RentAnswer(c, answered)
    \/ \E accepted \in BOOLEAN : SendAnswer(c, accepted)
    \/ \E status \in {"pending", "confirmed", "failed"} : PollAnswer(c, status)

Next ==
    \/ LoadCall
    \/ CreateCall
    \/ SwapCall
    \/ DepositCall
    \/ WithdrawCall
    \/ RentAnswered
    \/ SendAnswered
    \/ PollAnswered
    \/ CutOffPassed

Spec == Init /\ [][Next]_vars

\* The transport answers every request in the end.
FairSpec == Spec /\ \A c \in 1..MaxCalls : WF_vars(c <= Len(calls) /\ Answer(c))

\* ------------------------------------------------------------ the claims

Calls == 1..Len(calls)
Clients == 1..Len(clients)

Ended(call) == call.pc \in {"returned", "raised"}
HandedOver(call) == call.handoffs > 0

\* The addresses of an instruction's account references, in order.
Pubkeys(ins) == [i \in 1..Len(ins.keys) |-> ins.keys[i].pubkey]

OutOfRange(call) == \E i \in 1..Len(call.amounts) : ~InRange(call.amounts[i])

\* A step in which a load returned a client.
LoadReturned ==
    /\ Len(clients') = Len(clients) + 1
    /\ origins'[Len(origins')] = "load"

\* C1: a load that decodes a false initialization flag fails with
\* PoolNotInitializedError, returns no client and builds or submits no
\* transaction; a load returns a client only when it decoded a true flag.
C1_LoadOfUninitializedFails ==
    [][/\ (lastLoad' # lastLoad /\ lastLoad'.decoded /\ ~lastLoad'.isInitialized)
            => /\ lastLoad'.error = "PoolNotInitializedError"
               /\ ~lastLoad'.returned
               /\ clients' = clients
               /\ calls' = calls
               /\ nextAttempt' = nextAttempt
       /\ LoadReturned
            => /\ lastLoad'.decoded
               /\ lastLoad'.isInitialized
               /\ lastLoad'.returned
               /\ lastLoad'.error = ""
               /\ calls' = calls
               /\ nextAttempt' = nextAttempt]_vars

\* A load decoded a false flag and failed; no client came of it.
C1_Witness ==
    /\ lastLoad.decoded
    /\ ~lastLoad.isInitialized
    /\ lastLoad.error = "PoolNotInitializedError"
    /\ clients = <<>>

\* C2, as claimed: every client's authority is the derivation of its pool
\* address and program id.
C2_EveryAuthorityIsDerived ==
    \A i \in Clients :
        clients[i].authority =
            deriveAuthority(clients[i].stableSwap, clients[i].swapProgramId)

\* C3: every client load returns has the authority derived from its address
\* and program id, also when it loads a pool that create made with another
\* authority argument.
C3_LoadDerivesAuthority ==
    \A i \in Clients :
        origins[i] = "load"
            => clients[i].authority =
                   deriveAuthority(clients[i].stableSwap, clients[i].swapProgramId)

\* A create that passed an authority other than the derived one succeeded,
\* and the load right after it, of the same address and program id, returned
\* a client with the derived authority.
C3_Witness ==
    \E i \in Clients :
        /\ i + 1 \in Clients
        /\ origins[i] = "create"
        /\ origins[i + 1] = "load"
        /\ clients[i + 1].stableSwap = clients[i].stableSwap
        /\ clients[i + 1].swapProgramId = clients[i].swapProgramId
        /\ clients[i].authority = Key("userA")
        /\ clients[i + 1].authority =
               deriveAuthority(clients[i].stableSwap, clients[i].swapProgramId)

\* The transaction create hands over: the allocation, funded by the payer,
\* of the codec's span and owned by the program, then initialize.
IsAllocateThenInitialize(call) ==
    LET ins == call.tx.instructions
        k == call.keys
    IN  /\ Len(ins) = 2
        /\ ins[1].name = "createAccount"
        /\ Pubkeys(ins[1]) = <<k[1], k[2]>>
        /\ ins[1].space = StableSwapLayoutSpan
        /\ ins[1].owner = k[10]
        /\ ins[2].name = "initialize"
        /\ ins[2].programId = k[10]
        /\ Pubkeys(ins[2])[1] = k[2]

\* C4: create hands over one transaction, once, holding the allocation and
\* then initialize; no transaction allocates without initializing, and an
\* account a create made is initialized.
C4_AllocateAndInitializeTogether ==
    \A c \in Calls :
        /\ calls[c].op = "create" =>
            /\ calls[c].handoffs <= 1
            /\ HandedOver(calls[c]) => IsAllocateThenInitialize(calls[c])
            /\ calls[c].pc = "returned" =>
                LET a == ledger[calls[c].keys[2]]
                IN  /\ a.exists
                    /\ a.owner = calls[c].keys[10]
                    /\ a.space = StableSwapLayoutSpan
                    /\ a.data.isInitialized
        /\ \A i \in 1..Len(calls[c].tx.instructions) :
                calls[c].tx.instructions[i].name = "createAccount"
                    => /\ i < Len(calls[c].tx.instructions)
                       /\ calls[c].tx.instructions[i + 1].name = "initialize"

\* A create was confirmed and its account is on the ledger, initialized.
C4_Witness ==
    \E c \in Calls :
        /\ calls[c].op = "create"
        /\ calls[c].pc = "returned"
        /\ IsAllocateThenInitialize(calls[c])
        /\ ledger[calls[c].keys[2]].data.isInitialized

\* C5: no step changes a field of a client that exists, whatever calls are
\* under way.
C5_ClientsNeverChange ==
    [][/\ Len(clients') >= Len(clients)
       /\ \A i \in Clients : clients'[i] = clients[i]]_vars

\* Two calls on one client are under way at once, one of them polled once
\* already.
C5_Witness ==
    \E c, d \in Calls :
        /\ c # d
        /\ calls[c].client = calls[d].client
        /\ calls[c].client \in Clients
        /\ calls[c].pc = "submit" /\ calls[c].polls > 0
        /\ calls[d].pc = "submit"

\* The account slots section 4.2 lists for the instruction of a call on the
\* client this, with the call's key arguments k.
SlotsOf(op, this, k) ==
    CASE op = "swap" ->
            <<this.stableSwap, this.authority, k[1], k[2], k[3], k[4],
              this.tokenProgramId>>
      [] op = "deposit" ->
            <<this.stableSwap, this.authority, k[1], k[2], this.tokenAccountA,
              this.tokenAccountB, this.poolToken, k[3], this.tokenProgramId>>
      [] op = "withdraw" ->
            <<this.stableSwap, this.authority, this.poolToken, k[3],
              this.tokenAccountA, this.tokenAccountB, k[1], k[2],
              this.tokenProgramId>>

\* C6: the transaction of a swap, deposit or withdraw holds one instruction,
\* for the client's program, whose account slots are the ones section 4.2
\* lists, filled from the client's fields and the call's arguments.
C6_SlotsFromDescriptor ==
    \A c \in Calls :
        (HandedOver(calls[c]) /\ calls[c].op \in {"swap", "deposit", "withdraw"})
            => LET this == clients[calls[c].client]
                   ins == calls[c].tx.instructions
               IN  /\ Len(ins) = 1
                   /\ ins[1].name = calls[c].op
                   /\ ins[1].programId = this.swapProgramId
                   /\ Pubkeys(ins[1]) = SlotsOf(calls[c].op, this, calls[c].keys)
                   /\ calls[c].tx.signers = <<this.payer>>

\* A deposit and a withdraw were handed over on one client, with the
\* caller's accounts in the opposite order.
C6_Witness ==
    \E c, d \in Calls :
        /\ calls[c].op = "deposit" /\ HandedOver(calls[c])
        /\ calls[d].op = "withdraw" /\ HandedOver(calls[d])
        /\ calls[c].client = calls[d].client
        /\ calls[c].keys[1] = calls[d].keys[2]
        /\ calls[c].keys[1] # clients[calls[c].client].tokenAccountA

\* C7, as claimed: a call with a numeric argument outside the domain has
\* failed with ValueOutOfRangeError and asked nothing of the transport.
C7_RejectedBeforeAnyIO ==
    \A c \in Calls :
        OutOfRange(calls[c])
            => /\ calls[c].io = 0
               /\ calls[c].pc = "raised"
               /\ calls[c].error = "ValueOutOfRangeError"

C9_OneFreshAttemptPerCall ==
    /\ \A c \in Calls :
        /\ calls[c].handoffs <= 1
        /\ (calls[c].pc \in {"submit", "returned"} => calls[c].handoffs = 1)
        /\ (calls[c].txState = "failed" => calls[c].pc = "raised")
        /\ (HandedOver(calls[c]) <=> calls[c].tx # NoTransaction)
    /\ \A c, d \in Calls :
        (c # d /\ HandedOver(calls[c]) /\ HandedOver(calls[d]))
            => calls[c].tx.attempt # calls[d].tx.attempt
    /\ Cardinality({c \in Calls : HandedOver(calls[c])}) = nextAttempt - 1

\* Two calls with the same arguments on the same client were both submitted,
\* each with its own transaction, and the first of them had failed.
C9_Witness ==
    \E c, d \in Calls :
        /\ c < d
        /\ calls[c].op = calls[d].op
        /\ calls[c].client = calls[d].client
        /\ calls[c].keys = calls[d].keys
        /\ calls[c].amounts = calls[d].amounts
        /\ calls[c].txState = "failed"
        /\ HandedOver(calls[d])
        /\ calls[c].tx.attempt # calls[d].tx.attempt
        /\ calls[c].tx.instructions = calls[d].tx.instructions

\* The client create builds from the arguments k and the numbers n.
ClientOfArguments(k, n) ==
    StableSwap(k[2], k[10], k[11], k[6], k[3], k[4], k[5], k[7], k[8],
               n[1], n[2], n[3], k[1])

\* C10: a call returns only when its transaction was confirmed; when submit
\* failed the call raises submit's error; swap, deposit and withdraw return
\* the signature; create returns a client only then, and that client holds
\* the arguments of the call.
C10_ResultOnlyWhenConfirmed ==
    /\ \A c \in Calls :
        /\ calls[c].pc = "returned"
            => /\ calls[c].txState = "confirmed"
               /\ calls[c].error = ""
               /\ IF calls[c].op = "create"
                  THEN /\ calls[c].result \in Clients
                       /\ origins[calls[c].result] = "create"
                       /\ clients[calls[c].result] =
                              ClientOfArguments(calls[c].keys, calls[c].amounts)
                  ELSE calls[c].result = calls[c].tx.attempt
        /\ calls[c].txState = "confirmed" => calls[c].pc = "returned"
        /\ calls[c].txState = "failed"
            => /\ calls[c].pc = "raised"
               /\ calls[c].error = calls[c].submitError
               /\ calls[c].error \in {"SubmissionError", "ConfirmationTimeoutError",
                                      "ProgramRejectedError"}
    /\ Cardinality({i \in Clients : origins[i] = "create"})
           = Cardinality({c \in Calls : calls[c].op = "create"
                                            /\ calls[c].pc = "returned"})

\* A create returned a client that holds the authority argument although the
\* ledger derives another, and another create raised the program's refusal.
C10_Witness ==
    \E c, d \in Calls :
        /\ calls[c].op = "create" /\ calls[c].pc = "returned"
        /\ clients[calls[c].result].authority = Key("userA")
        /\ calls[d].op = "create" /\ calls[d].pc = "raised"
        /\ calls[d].error = "ProgramRejectedError"

====
